---------------------------- MODULE Spec2Model ----------------------------
(***************************************************************************)
(* Model of app/lib/data.ts: the eight read-only query operations of the   *)
(* invoicing dashboard.  Every operation builds one SQL statement (three   *)
(* for fetchCardData), awaits the database and either shapes the rows or   *)
(* falls into its catch block.  The database is modelled by what the SQL   *)
(* asks of it: joins, ILIKE filters, ORDER BY, LIMIT/OFFSET, aggregates.   *)
(* Where SQL leaves the answer open (rows that tie on the ORDER BY key)    *)
(* every permitted answer is a possible outcome.                           *)
(*                                                                         *)
(* Text that a query pattern-matches or sorts is a sequence of one         *)
(* character strings; other text is a plain string.                        *)
(***************************************************************************)
EXTENDS Integers, Sequences, FiniteSets, TLC

VARIABLES
    customers,   \* table customers(id, name, email, image_url)
    invoices,    \* table invoices(id, customer_id, amount, status, date)
    revenue,     \* table revenue(month, revenue)
    pc,          \* position of the call: "idle", "awaiting", "returned", "threw"
    op,          \* name of the operation called
    args,        \* its arguments
    queries,     \* the sql`...` promises the call created, in order
    result,      \* the value the call returned
    console,     \* console.error entries written by the call
    session      \* history: the pages a caller has been handed, in turn, for one query

vars == <<customers, invoices, revenue, pc, op, args, queries, result, console, session>>

tables == <<customers, invoices, revenue>>

---------------------------------------------------------------------------
(* Bounds of the model. *)

MaxInvoices == 8      \* rows in invoices
MaxTied == 2          \* invoices sharing one date
MaxQueryLen == 2      \* characters in a search query of SpecSearch

---------------------------------------------------------------------------
(* Text. *)

\* The printable ASCII characters, in code order, from code 32 (code 96, the
\* grave accent, cannot be written in a string here and is spelled out).
Ascii ==
    << " ", "!", "\"", "#", "$", "%", "&", "'", "(", ")", "*", "+", ",", "-", ".", "/",
       "0", "1", "2", "3", "4", "5", "6", "7", "8", "9", ":", ";", "<", "=", ">", "?",
       "@", "A", "B", "C", "D", "E", "F", "G", "H", "I", "J", "K", "L", "M", "N", "O",
       "P", "Q", "R", "S", "T", "U", "V", "W", "X", "Y", "Z", "[", "\\", "]", "^", "_",
       "GRAVE", "a", "b", "c", "d", "e", "f", "g", "h", "i", "j", "k", "l", "m", "n", "o",
       "p", "q", "r", "s", "t", "u", "v", "w", "x", "y", "z", "{", "|", "}", "~" >>

Characters == { Ascii[i] : i \in 1..Len(Ascii) }

CodeTable == [c \in Characters |-> 31 + (CHOOSE i \in 1..Len(Ascii) : Ascii[i] = c)]

Code(c) == CodeTable[c]

\* A to Z, codes 65 to 90, fold to a to z, 32 further on.
LowerTable == [c \in Characters |-> IF Code(c) \in 65..90 THEN Ascii[Code(c) + 32 - 31] ELSE c]

Lower(c) == LowerTable[c]

LowerText(t) == [i \in 1..Len(t) |-> Lower(t[i])]

RECURSIVE TextLess(_, _)
\* Text comparison of ORDER BY ... ASC, by character code.
TextLess(a, b) ==
    IF b = <<>> THEN FALSE
    ELSE IF a = <<>> THEN TRUE
    ELSE IF Head(a) # Head(b) THEN Code(Head(a)) < Code(Head(b))
    ELSE TextLess(Tail(a), Tail(b))

Digit(d) == Ascii[d + 17]

RECURSIVE NatToText(_)
NatToText(n) == IF n < 10 THEN <<Digit(n)>> ELSE NatToText(n \div 10) \o <<Digit(n % 10)>>

\* integer::text
IntToText(n) == IF n < 0 THEN <<"-">> \o NatToText(-n) ELSE NatToText(n)

RECURSIVE Pad(_, _)
Pad(t, width) == IF Len(t) >= width THEN t ELSE Pad(<<"0">> \o t, width)

\* date::text, ISO style: 2024-01-05.  A date is <<year, month, day>>.
DateToText(d) ==
    Pad(NatToText(d[1]), 4) \o <<"-">> \o Pad(NatToText(d[2]), 2) \o <<"-">> \o Pad(NatToText(d[3]), 2)

RECURSIVE Like(_, _)
\* text LIKE pattern: % is any run of characters, _ any one character, and a
\* backslash takes the next pattern character literally.
Like(t, p) ==
    IF p = <<>> THEN t = <<>>
    ELSE IF Head(p) = "%" THEN Like(t, Tail(p)) \/ (t # <<>> /\ Like(Tail(t), p))
    ELSE IF Head(p) = "_" THEN t # <<>> /\ Like(Tail(t), Tail(p))
    ELSE IF Head(p) = "\\" /\ Len(p) >= 2
         THEN t # <<>> /\ Head(t) = p[2] /\ Like(Tail(t), Tail(Tail(p)))
    ELSE t # <<>> /\ Head(t) = Head(p) /\ Like(Tail(t), Tail(p))

\* text ILIKE pattern: LIKE without regard to case.
ILike(t, p) == Like(LowerText(t), LowerText(p))

\* The template `%${query}%`.
Wrap(query) == <<"%">> \o query \o <<"%">>

\* The absent value of SQL and of JavaScript is the empty tuple; a present
\* value v is <<v>>.
Null == <<>>

Some(v) == <<v>>

\* JavaScript's null as a returned value.
JsNull == [null |-> TRUE]

---------------------------------------------------------------------------
(* The database: what each SQL statement of data.ts selects.               *)

PaidAmount(i) == IF i.status = "paid" THEN i.amount ELSE 0

PendingAmount(i) == IF i.status = "pending" THEN i.amount ELSE 0

\* CASE WHEN invoices.status = 'pending' THEN invoices.amount ELSE 0 END: a NULL
\* status compares as unknown and takes the ELSE.
CasePending(l) == IF l.i.status = Some("pending") THEN l.i.amount[1] ELSE 0

CasePaid(l) == IF l.i.status = Some("paid") THEN l.i.amount[1] ELSE 0

\* The CASE expression summed into a column.
Term(column, row) ==
    CASE column = "paid" -> PaidAmount(row)
      [] column = "pending" -> PendingAmount(row)
      [] column = "total_pending" -> CasePending(row)
      [] column = "total_paid" -> CasePaid(row)

RECURSIVE Sum(_, _)
\* The sum of a column's terms over a set of rows.
Sum(rows, column) ==
    IF rows = {} THEN 0
    ELSE LET r == CHOOSE x \in rows : TRUE IN Term(column, r) + Sum(rows \ {r}, column)

\* SUM over no rows is NULL.
SqlSum(rows, column) == IF rows = {} THEN Null ELSE Some(Sum(rows, column))

DateLess(a, b) ==
    \/ a[1] < b[1]
    \/ a[1] = b[1] /\ a[2] < b[2]
    \/ a[1] = b[1] /\ a[2] = b[2] /\ a[3] < b[3]

\* Row a must come before row b under an ORDER BY; without one, no row must.
Precedes(orderBy, a, b) ==
    CASE orderBy = "invoices.date DESC" -> DateLess(b.i.date, a.i.date)
      [] orderBy = "invoices.date ASC" -> DateLess(a.i.date, b.i.date)
      [] orderBy = "month ASC" -> TextLess(a.month, b.month)
      [] orderBy = "name ASC" -> TextLess(a.name, b.name)
      [] OTHER -> FALSE

RECURSIVE Orders(_, _)
\* ORDER BY: every sequence of the rows in which no row comes before one that
\* precedes it.  Rows that tie on the key may come in any order; SQL
\* promises none, and LIMIT/OFFSET may change the plan and with it the order.
Orders(rows, orderBy) ==
    IF rows = {} THEN {<<>>}
    ELSE UNION { { <<r>> \o rest : rest \in Orders(rows \ {r}, orderBy) } :
                 r \in { x \in rows : \A y \in rows : ~Precedes(orderBy, y, x) } }

\* LIMIT n OFFSET k of an ordered result.
LimitOffset(rows, limit, offset) ==
    SubSeq(rows, offset + 1, IF Len(rows) < offset + limit THEN Len(rows) ELSE offset + limit)

\* invoices JOIN customers ON invoices.customer_id = customers.id
Joined ==
    { [i |-> p[1], c |-> p[2]] :
        p \in { x \in invoices \X customers : x[1].customer_id = x[2].id } }

\* customers LEFT JOIN invoices ON customers.id = invoices.customer_id: a
\* customer without invoices is kept once, its invoice columns NULL.
NoInvoice == [id |-> Null, status |-> Null, amount |-> Null]

LeftJoined ==
    { [c |-> p[1],
       i |-> [id |-> Some(p[2].id), status |-> Some(p[2].status), amount |-> Some(p[2].amount)]] :
        p \in { x \in customers \X invoices : x[1].id = x[2].customer_id } }
    \cup
    { [c |-> c, i |-> NoInvoice] : c \in { x \in customers : \A y \in invoices : y.customer_id # x.id } }

\* SELECT * FROM revenue ORDER BY month ASC
SelectRevenue == Orders(revenue, "month ASC")

LatestColumns(j) ==
    [amount |-> j.i.amount, name |-> j.c.name, image_url |-> j.c.image_url,
     email |-> j.c.email, id |-> j.i.id]

\* Mutant: ORDER BY invoices.date ASC.
SelectLatestInvoices_ascending ==
    { LET rows == LimitOffset(o, 5, 0) IN [k \in 1..Len(rows) |-> LatestColumns(rows[k])] :
        o \in Orders(Joined, "invoices.date ASC") }

\* SELECT ... FROM invoices JOIN customers ... ORDER BY invoices.date DESC LIMIT 5
SelectLatestInvoices ==
    { LET rows == LimitOffset(o, 5, 0) IN [k \in 1..Len(rows) |-> LatestColumns(rows[k])] :
        o \in Orders(Joined, "invoices.date DESC") }

\* SELECT COUNT(*) AS count FROM invoices
SelectInvoiceCount == { <<[count |-> Some(Cardinality(invoices))]>> }

\* SELECT COUNT(*) AS count FROM customers
SelectCustomerCount == { <<[count |-> Some(Cardinality(customers))]>> }

\* SELECT SUM(CASE WHEN status = 'paid' ...) AS paid, SUM(CASE ... 'pending' ...) AS pending
SelectTotals ==
    { <<[paid |-> SqlSum(invoices, "paid"), pending |-> SqlSum(invoices, "pending")]>> }

StatusText(status) ==
    IF status = "paid" THEN <<"p", "a", "i", "d">> ELSE <<"p", "e", "n", "d", "i", "n", "g">>

\* The WHERE of fetchFilteredInvoices.
fetchFilteredInvoices_where(j, query) ==
    \/ ILike(j.c.name, Wrap(query))
    \/ ILike(j.c.email, Wrap(query))
    \/ ILike(IntToText(j.i.amount), Wrap(query))
    \/ ILike(DateToText(j.i.date), Wrap(query))
    \/ ILike(StatusText(j.i.status), Wrap(query))

\* The WHERE of fetchInvoicesPages.
fetchInvoicesPages_where(j, query) ==
    \/ ILike(j.c.name, Wrap(query))
    \/ ILike(j.c.email, Wrap(query))
    \/ ILike(IntToText(j.i.amount), Wrap(query))
    \/ ILike(DateToText(j.i.date), Wrap(query))
    \/ ILike(StatusText(j.i.status), Wrap(query))

FilteredColumns(j) ==
    [id |-> j.i.id, amount |-> j.i.amount, date |-> j.i.date, status |-> j.i.status,
     name |-> j.c.name, email |-> j.c.email, image_url |-> j.c.image_url]

\* SELECT ... WHERE ... ORDER BY invoices.date DESC LIMIT ${ITEMS_PER_PAGE} OFFSET ${offset}
SelectFilteredInvoices(query, limit, offset) ==
    { LET rows == LimitOffset(o, limit, offset) IN [k \in 1..Len(rows) |-> FilteredColumns(rows[k])] :
        o \in Orders({ j \in Joined : fetchFilteredInvoices_where(j, query) }, "invoices.date DESC") }

\* SELECT COUNT(*) AS count FROM invoices JOIN customers ... WHERE ...
SelectInvoicesCount(query) ==
    { <<[count |-> Some(Cardinality({ j \in Joined : fetchInvoicesPages_where(j, query) }))]>> }

\* SELECT id, customer_id, amount, status FROM invoices WHERE id = ${id}
SelectInvoiceById(id) ==
    Orders({ [id |-> i.id, customer_id |-> i.customer_id, amount |-> i.amount, status |-> i.status] :
               i \in { x \in invoices : x.id = id } }, "")

\* SELECT id, name FROM customers ORDER BY name ASC
SelectCustomers == Orders({ [id |-> c.id, name |-> c.name] : c \in customers }, "name ASC")

\* The WHERE of fetchFilteredCustomers.
fetchFilteredCustomers_where(c, query) ==
    \/ ILike(c.name, Wrap(query))
    \/ ILike(c.email, Wrap(query))

\* Mutant: JOIN in place of LEFT JOIN.
fetchFilteredCustomers_join_inner == { l \in LeftJoined : l.i.id # Null }

\* The join fetchFilteredCustomers groups.
fetchFilteredCustomers_join == LeftJoined

\* One group of GROUP BY customers.id, ...: COUNT(invoices.id) counts the
\* rows whose invoices.id is not NULL.
CustomerGroup(c, joined) ==
    LET group == { l \in joined : l.c = c }
    IN  [id |-> c.id, name |-> c.name, email |-> c.email, image_url |-> c.image_url,
         total_invoices |-> Cardinality({ l \in group : l.i.id # Null }),
         total_pending |-> SqlSum(group, "total_pending"),
         total_paid |-> SqlSum(group, "total_paid")]

\* SELECT ... FROM customers LEFT JOIN invoices ... WHERE ... GROUP BY ... ORDER BY customers.name ASC
SelectFilteredCustomers(query) ==
    LET joined == { l \in fetchFilteredCustomers_join : fetchFilteredCustomers_where(l.c, query) }
    IN  Orders({ CustomerGroup(c, joined) : c \in { l.c : l \in joined } }, "name ASC")

---------------------------------------------------------------------------
(* The operations of data.ts.                                              *)

ITEMS_PER_PAGE == 6

RECURSIVE Grouped(_)
\* Digits with a comma before every group of three.
Grouped(digits) ==
    IF Len(digits) <= 3 THEN digits
    ELSE Grouped(SubSeq(digits, 1, Len(digits) - 3)) \o <<",">>
         \o SubSeq(digits, Len(digits) - 2, Len(digits))

\* formatCurrency of ./utils: minor units to display text, 150000 to
\* "P1,500.00" with the peso sign; null or undefined formats as zero.
formatCurrency(amount) ==
    LET minor == IF amount = Null THEN 0 ELSE amount[1]
    IN  <<"₱">> \o Grouped(NatToText(minor \div 100)) \o <<".">> \o Pad(NatToText(minor % 100), 2)

\* x ?? d
Coalesce(x, d) == IF x = Null THEN Some(d) ELSE x

\* Number(x) of a present value.
Number(x) == x[1]

\* Math.ceil(a / b) for a >= 0 and b > 0.
MathCeilDiv(a, b) == (a + b - 1) \div b

\* How a call ends: by a return or by an exception reaching the caller, with
\* the console.error entries it wrote on the way.
Return(value) == [kind |-> "return", value |-> value, entries |-> <<>>]

Throw == [kind |-> "throw", value |-> JsNull, entries |-> <<>>]

\* catch (error) { console.error('Database Error (<name>):', error); return <value>; }
Caught(name, value) ==
    [kind |-> "return", value |-> value,
     entries |-> << [message |-> "Database Error (" \o name \o "):", error |-> "fault"] >>]

\* An awaited sql promise throws when it is rejected.
Throws(q) == q.state = "rejected"

\* rows[0].<column> throws a TypeError when there is no first row.
NoFirstRow(q) == Len(q.rows) = 0

fetchRevenue(qs) ==
    IF Throws(qs[1]) THEN Caught("fetchRevenue", <<>>)
    ELSE Return(qs[1].rows)

LatestInvoice(invoice) == [invoice EXCEPT !.amount = formatCurrency(Some(invoice.amount))]

fetchLatestInvoices(qs) ==
    IF Throws(qs[1]) THEN Caught("fetchLatestInvoices", <<>>)
    ELSE Return([k \in 1..Len(qs[1].rows) |-> LatestInvoice(qs[1].rows[k])])

\* The value of the catch block of fetchCardData.
DefaultCardData ==
    [numberOfInvoices |-> 0, numberOfCustomers |-> 0,
     totalPaidInvoices |-> <<"₱", "0">>, totalPendingInvoices |-> <<"₱", "0">>]

\* Mutant: each statement caught on its own, its fields defaulted.
fetchCardData_partial(qs) ==
    IF \A i \in 1..Len(qs) : Throws(qs[i]) \/ NoFirstRow(qs[i])
    THEN Caught("fetchCardData", DefaultCardData)
    ELSE Return([numberOfInvoices |->
                     IF NoFirstRow(qs[1]) THEN 0 ELSE Number(Coalesce(qs[1].rows[1].count, 0)),
                 numberOfCustomers |->
                     IF NoFirstRow(qs[2]) THEN 0 ELSE Number(Coalesce(qs[2].rows[1].count, 0)),
                 totalPaidInvoices |->
                     IF NoFirstRow(qs[3]) THEN <<"₱", "0">>
                     ELSE formatCurrency(Coalesce(qs[3].rows[1].paid, 0)),
                 totalPendingInvoices |->
                     IF NoFirstRow(qs[3]) THEN <<"₱", "0">>
                     ELSE formatCurrency(Coalesce(qs[3].rows[1].pending, 0))])

\* await Promise.all([...]) throws when one of the promises is rejected.
fetchCardData(qs) ==
    IF \E i \in 1..Len(qs) : Throws(qs[i]) \/ NoFirstRow(qs[i])
    THEN Caught("fetchCardData", DefaultCardData)
    ELSE Return([numberOfInvoices |-> Number(Coalesce(qs[1].rows[1].count, 0)),
                 numberOfCustomers |-> Number(Coalesce(qs[2].rows[1].count, 0)),
                 totalPaidInvoices |-> formatCurrency(Coalesce(qs[3].rows[1].paid, 0)),
                 totalPendingInvoices |-> formatCurrency(Coalesce(qs[3].rows[1].pending, 0))])

\* Mutant: pages counted from 0.
fetchFilteredInvoices_offset_zeroBased(currentPage) == currentPage * ITEMS_PER_PAGE

\* const offset = (currentPage - 1) * ITEMS_PER_PAGE
fetchFilteredInvoices_offset(currentPage) == (currentPage - 1) * ITEMS_PER_PAGE

fetchFilteredInvoices(qs) ==
    IF Throws(qs[1]) THEN Caught("fetchFilteredInvoices", <<>>)
    ELSE Return(qs[1].rows)

fetchInvoicesPages(qs) ==
    IF Throws(qs[1]) \/ NoFirstRow(qs[1]) THEN Caught("fetchInvoicesPages", 1)
    ELSE Return(MathCeilDiv(Number(qs[1].rows[1].count), ITEMS_PER_PAGE))

\* rows[0].amount / 100, kept as the fraction it is.
InvoiceForm(row) == [row EXCEPT !.amount = [numerator |-> row.amount, denominator |-> 100]]

fetchInvoiceById(qs) ==
    IF Throws(qs[1]) THEN Caught("fetchInvoiceById", JsNull)
    ELSE IF Len(qs[1].rows) = 0 THEN Return(JsNull)
    ELSE Return(InvoiceForm(qs[1].rows[1]))

\* Mutant: no try/catch.
fetchCustomers_uncaught(qs) ==
    IF Throws(qs[1]) THEN Throw
    ELSE Return(qs[1].rows)

fetchCustomers(qs) ==
    IF Throws(qs[1]) THEN Caught("fetchCustomers", <<>>)
    ELSE Return(qs[1].rows)

FilteredCustomer(customer) ==
    [customer EXCEPT !.total_pending = formatCurrency(customer.total_pending),
                     !.total_paid = formatCurrency(customer.total_paid)]

fetchFilteredCustomers(qs) ==
    IF Throws(qs[1]) THEN Caught("fetchFilteredCustomers", <<>>)
    ELSE Return([k \in 1..Len(qs[1].rows) |-> FilteredCustomer(qs[1].rows[k])])

\* What the call does once its await is over.
Body(name, qs) ==
    CASE name = "fetchRevenue" -> fetchRevenue(qs)
      [] name = "fetchLatestInvoices" -> fetchLatestInvoices(qs)
      [] name = "fetchCardData" -> fetchCardData(qs)
      [] name = "fetchFilteredInvoices" -> fetchFilteredInvoices(qs)
      [] name = "fetchInvoicesPages" -> fetchInvoicesPages(qs)
      [] name = "fetchInvoiceById" -> fetchInvoiceById(qs)
      [] name = "fetchCustomers" -> fetchCustomers(qs)
      [] name = "fetchFilteredCustomers" -> fetchFilteredCustomers(qs)

\* The statements a call hands to sql, in the order it creates them.
Sql(name, a) ==
    CASE name = "fetchCardData" ->
           << [text |-> "invoiceCount"], [text |-> "customerCount"], [text |-> "totals"] >>
      [] name = "fetchFilteredInvoices" ->
           << [text |-> name, query |-> a.query, limit |-> ITEMS_PER_PAGE,
               offset |-> fetchFilteredInvoices_offset(a.currentPage)] >>
      [] name \in {"fetchInvoicesPages", "fetchFilteredCustomers"} ->
           << [text |-> name, query |-> a.query] >>
      [] name = "fetchInvoiceById" -> << [text |-> name, id |-> a.id] >>
      [] OTHER -> << [text |-> name] >>

\* The database refuses a negative OFFSET.
Refused(stmt) == stmt.text = "fetchFilteredInvoices" /\ stmt.offset < 0

\* The results the database may give a statement.
Execute(stmt) ==
    CASE stmt.text = "fetchRevenue" -> SelectRevenue
      [] stmt.text = "fetchLatestInvoices" -> SelectLatestInvoices
      [] stmt.text = "invoiceCount" -> SelectInvoiceCount
      [] stmt.text = "customerCount" -> SelectCustomerCount
      [] stmt.text = "totals" -> SelectTotals
      [] stmt.text = "fetchFilteredInvoices" ->
           SelectFilteredInvoices(stmt.query, stmt.limit, stmt.offset)
      [] stmt.text = "fetchInvoicesPages" -> SelectInvoicesCount(stmt.query)
      [] stmt.text = "fetchInvoiceById" -> SelectInvoiceById(stmt.id)
      [] stmt.text = "fetchCustomers" -> SelectCustomers
      [] stmt.text = "fetchFilteredCustomers" -> SelectFilteredCustomers(stmt.query)

\* Mutant: Promise.race, which settles with the first promise that does.
PromiseAll_race(qs) == \E i \in 1..Len(qs) : qs[i].state # "pending"

\* Promise.all settles when every promise is fulfilled or when one is rejected.
PromiseAll(qs) ==
    \/ \A i \in 1..Len(qs) : qs[i].state = "fulfilled"
    \/ \E i \in 1..Len(qs) : qs[i].state = "rejected"

\* The await of a call is over: the one promise of a single statement, or
\* the Promise.all of fetchCardData.
AwaitOver(name, qs) ==
    IF name = "fetchCardData" THEN PromiseAll(qs) ELSE qs[1].state # "pending"

---------------------------------------------------------------------------
(* History: the pages handed out for one query.  It is opened by a          *)
(* fetchInvoicesPages(query) that returns its count; it then collects the   *)
(* rows of fetchFilteredInvoices(query, 1), (query, 2), ... as long as the  *)
(* calls that follow ask for the next page of that query and do not fault,  *)
(* and any other call closes it.  No operation reads it.                    *)

NoSession == [open |-> FALSE, query |-> <<>>, pageCount |-> 0, pages |-> <<>>]

InSession(name, a) ==
    /\ name = "fetchFilteredInvoices"
    /\ session.open
    /\ a.query = session.query
    /\ a.currentPage = Len(session.pages) + 1
    /\ a.currentPage <= session.pageCount

SessionAfter(name, a, c) ==
    IF name = "fetchInvoicesPages"
    THEN IF c.kind = "return" /\ c.entries = <<>>
         THEN [open |-> TRUE, query |-> a.query, pageCount |-> c.value, pages |-> <<>>]
         ELSE NoSession
    ELSE IF InSession(name, a) /\ c.kind = "return" /\ c.entries = <<>>
         THEN [session EXCEPT !.pages = Append(session.pages, c.value)]
         ELSE NoSession

---------------------------------------------------------------------------
(* Steps. *)

NoArgs == <<>>

\* A caller calls an operation: the function runs to its await, creating its
\* sql promises.  One call is followed at a time, and the next starts once
\* the database has answered every statement of the last.
Call(name, a) ==
    /\ pc \in {"idle", "returned", "threw"}
    /\ \A i \in 1..Len(queries) : queries[i].state # "pending"
    /\ pc' = "awaiting"
    /\ op' = name
    /\ args' = a
    /\ queries' = [i \in 1..Len(Sql(name, a)) |->
                     [stmt |-> Sql(name, a)[i], state |-> "pending", rows |-> <<>>]]
    /\ result' = JsNull
    /\ console' = <<>>
    /\ session' = IF InSession(name, a) THEN session ELSE NoSession
    /\ UNCHANGED tables

\* The database answers a statement with one of the results it may give.
Fulfil ==
    \E i \in 1..Len(queries) :
        /\ queries[i].state = "pending"
        /\ ~Refused(queries[i].stmt)
        /\ \E rows \in Execute(queries[i].stmt) :
               queries' = [queries EXCEPT ![i].state = "fulfilled", ![i].rows = rows]
        /\ UNCHANGED <<tables, pc, op, args, result, console, session>>

\* A statement faults: the database refuses it or the connection fails.
Reject ==
    \E i \in 1..Len(queries) :
        /\ queries[i].state = "pending"
        /\ queries' = [queries EXCEPT ![i].state = "rejected"]
        /\ UNCHANGED <<tables, pc, op, args, result, console, session>>

\* The await is over and the call runs to its end.
Resume ==
    /\ pc = "awaiting"
    /\ AwaitOver(op, queries)
    /\ LET c == Body(op, queries)
       IN  /\ pc' = IF c.kind = "return" THEN "returned" ELSE "threw"
           /\ result' = c.value
           /\ console' = c.entries
           /\ session' = SessionAfter(op, args, c)
    /\ UNCHANGED <<tables, op, args, queries>>

---------------------------------------------------------------------------
(* Table contents. *)

CustomerPool ==
    { [id |-> 1, name |-> <<"A", "n", "a">>,
       email |-> <<"a", "n", "a", "@", "x", ".", "i", "o">>, image_url |-> "/customers/ana.png"],
      [id |-> 2, name |-> <<"B", "o">>,
       email |-> <<"b", "o", "@", "y", ".", "p", "h">>, image_url |-> "/customers/bo.png"],
      [id |-> 3, name |-> <<"C", "y">>,
       email |-> <<"c", "y", "@", "x", ".", "i", "o">>, image_url |-> "/customers/cy.png"] }

RevenuePool ==
    { [month |-> <<"J", "a", "n">>, revenue |-> 2000],
      [month |-> <<"F", "e", "b">>, revenue |-> 1800] }

DatePool == << <<2024, 1, 5>>, <<2024, 1, 6>>, <<2024, 2, 5>>, <<2025, 1, 5>> >>

AmountPool == <<500, 1250, 150000, 20348>>

\* Invoice number id, dated DatePool[d].
InvoiceRow(id, d) ==
    [id |-> id, customer_id |-> 1 + (id % 3), amount |-> AmountPool[1 + (id % 4)],
     status |-> IF id % 2 = 0 THEN "paid" ELSE "pending", date |-> DatePool[d]]

\* The ways to date invoices 1..n: later invoices never earlier, and at most
\* MaxTied of them on one date.
Datings(n) ==
    { f \in [1..n -> 1..Len(DatePool)] :
        /\ \A i \in 1..n : i < n => f[i] <= f[i + 1]
        /\ \A d \in 1..Len(DatePool) : Cardinality({ i \in 1..n : f[i] = d }) <= MaxTied }

InvoiceTables(rows) ==
    UNION { { { InvoiceRow(i, f[i]) : i \in 1..n } : f \in Datings(n) } : n \in 0..rows }

Idle ==
    /\ pc = "idle"
    /\ op = "none"
    /\ args = NoArgs
    /\ queries = <<>>
    /\ result = JsNull
    /\ console = <<>>
    /\ session = NoSession

---------------------------------------------------------------------------
(* Spec: every operation, on small tables. *)

SmallRows == 2

Queries == { <<>>, <<"A", "N">>, <<"X", ".">>, <<"z">> }

Pages == 1..2

Init ==
    /\ customers \in SUBSET CustomerPool
    /\ invoices \in InvoiceTables(SmallRows)
    /\ revenue \in {{}, RevenuePool}
    /\ Idle

fetchRevenue_call == Call("fetchRevenue", NoArgs)

fetchLatestInvoices_call == Call("fetchLatestInvoices", NoArgs)

fetchCardData_call == Call("fetchCardData", NoArgs)

fetchFilteredInvoices_call(query, currentPage) ==
    Call("fetchFilteredInvoices", [query |-> query, currentPage |-> currentPage])

fetchInvoicesPages_call(query) == Call("fetchInvoicesPages", [query |-> query])

fetchInvoiceById_call(id) == Call("fetchInvoiceById", [id |-> id])

fetchCustomers_call == Call("fetchCustomers", NoArgs)

fetchFilteredCustomers_call(query) == Call("fetchFilteredCustomers", [query |-> query])

Next ==
    \/ fetchRevenue_call
    \/ fetchLatestInvoices_call
    \/ fetchCardData_call
    \/ \E query \in Queries, currentPage \in Pages : fetchFilteredInvoices_call(query, currentPage)
    \/ \E query \in Queries : fetchInvoicesPages_call(query)
    \/ \E id \in 0..SmallRows : fetchInvoiceById_call(id)
    \/ fetchCustomers_call
    \/ \E query \in Queries : fetchFilteredCustomers_call(query)
    \/ Fulfil
    \/ Reject
    \/ Resume

Spec == Init /\ [][Next]_vars

---------------------------------------------------------------------------
(* Properties of Spec. *)

Returned(name) == pc = "returned" /\ op = name

\* A statement of the call faulted.
Faulted == \E i \in 1..Len(queries) : queries[i].state = "rejected"

InFlight == { i \in 1..Len(queries) : queries[i].state = "pending" }

Operations ==
    { "fetchRevenue", "fetchLatestInvoices", "fetchCardData", "fetchFilteredInvoices",
      "fetchInvoicesPages", "fetchInvoiceById", "fetchCustomers", "fetchFilteredCustomers" }

ZeroedCardSummary ==
    [numberOfInvoices |-> 0, numberOfCustomers |-> 0,
     totalPaidInvoices |-> <<"₱", "0">>, totalPendingInvoices |-> <<"₱", "0">>]

\* C3: a fault in a call's query never reaches the caller as an exception.
\* The call returns the documented default of its operation (an empty
\* sequence for the listings, the zeroed summary for fetchCardData, 1 for
\* fetchInvoicesPages, null for fetchInvoiceById) and has written one error
\* entry that names the operation.
C3_FaultYieldsDefault ==
    /\ pc # "threw"
    /\ pc = "returned" /\ Faulted =>
        /\ op \in Operations
        /\ console = << [message |-> "Database Error (" \o op \o "):", error |-> "fault"] >>
        /\ CASE op = "fetchCardData" -> result = ZeroedCardSummary
             [] op = "fetchInvoicesPages" -> result = 1
             [] op = "fetchInvoiceById" -> result = JsNull
             [] OTHER -> result = <<>>

\* A single-statement call has returned after its statement faulted, tables
\* not empty.
C3_Witness ==
    /\ Returned("fetchCustomers") /\ Faulted
    /\ customers # {}
    /\ console # <<>>

\* What fetchCardData computes from the tables when all three statements
\* succeed.
ComputedCardSummary ==
    [numberOfInvoices |-> Cardinality(invoices),
     numberOfCustomers |-> Cardinality(customers),
     totalPaidInvoices |-> formatCurrency(Some(Sum(invoices, "paid"))),
     totalPendingInvoices |-> formatCurrency(Some(Sum(invoices, "pending")))]

\* C4: when one of the three statements of fetchCardData faults, whatever the
\* other two did and in whatever order, the call returns the whole default
\* summary; a returned summary is either that default or computed in every
\* field from three successful statements, never a mixture.
C4_NoPartialCardSummary ==
    Returned("fetchCardData") =>
        /\ Faulted => result = ZeroedCardSummary
        /\ \/ result = ZeroedCardSummary
           \/ /\ \A i \in 1..3 : queries[i].state = "fulfilled"
              /\ result = ComputedCardSummary

\* fetchCardData has returned after its totals statement faulted and both
\* counts succeeded on tables that are not empty.
C4_Witness ==
    /\ Returned("fetchCardData")
    /\ queries[1].state = "fulfilled" /\ queries[2].state = "fulfilled"
    /\ queries[3].state = "rejected"
    /\ invoices # {} /\ customers # {}

\* C9 as stated: fetchCardData has returned only when none of its three
\* statements is still in flight.
C9_ReturnsAfterAllComplete ==
    Returned("fetchCardData") => InFlight = {}

\* C9, amended: fetchCardData returns a computed summary only after all three
\* statements have succeeded; it returns with a statement still in flight
\* only when another has faulted, and it then returns the default summary.
C9_ReturnsAfterAllOrFirstFault ==
    Returned("fetchCardData") =>
        /\ ~Faulted => \A i \in 1..3 : queries[i].state = "fulfilled"
        /\ InFlight # {} => Faulted /\ result = ZeroedCardSummary

\* fetchCardData has returned the default while two statements are in flight.
C9_Witness ==
    /\ Returned("fetchCardData")
    /\ queries[2].state = "rejected"
    /\ InFlight = {1, 3}
    /\ result = ZeroedCardSummary

\* The statements of an operation, answered with no data: no rows, a count
\* of 0, sums of nothing.
NoData(name) ==
    CASE name = "fetchCardData" ->
           << [state |-> "fulfilled", rows |-> <<[count |-> Some(0)]>>],
              [state |-> "fulfilled", rows |-> <<[count |-> Some(0)]>>],
              [state |-> "fulfilled", rows |-> <<[paid |-> Null, pending |-> Null]>>] >>
      [] name = "fetchInvoicesPages" ->
           << [state |-> "fulfilled", rows |-> <<[count |-> Some(0)]>>] >>
      [] OTHER -> << [state |-> "fulfilled", rows |-> <<>>] >>

\* C6: the value a call returns after a fault equals the value the same
\* operation returns when its query succeeds and finds no data.
C6_FaultEqualsNoData ==
    pc = "returned" /\ Faulted => result = Body(op, NoData(op)).value

\* C8: in a fetchFilteredCustomers(q) that did not fault, every customer
\* matching q by name or email and owning no invoice has exactly one row,
\* with total_invoices 0 and both totals the currency text of zero.
C8_CustomerWithoutInvoices ==
    Returned("fetchFilteredCustomers") /\ ~Faulted =>
        \A c \in customers :
            /\ fetchFilteredCustomers_where(c, args.query)
            /\ \A i \in invoices : i.customer_id # c.id
            => /\ Cardinality({ k \in 1..Len(result) : result[k].id = c.id }) = 1
               /\ \A k \in 1..Len(result) : result[k].id = c.id =>
                    /\ result[k].total_invoices = 0
                    /\ result[k].total_pending = formatCurrency(Some(0))
                    /\ result[k].total_paid = formatCurrency(Some(0))

\* A non-empty search has returned a customer without invoices beside one
\* with invoices.
C8_Witness ==
    /\ Returned("fetchFilteredCustomers") /\ ~Faulted
    /\ args.query # <<>>
    /\ \E k \in 1..Len(result) : result[k].total_invoices = 0
    /\ \E k \in 1..Len(result) : result[k].total_invoices > 0

---------------------------------------------------------------------------
(* SpecPaging: the two paginated operations and fetchLatestInvoices, on     *)
(* tables of up to MaxInvoices invoices.                                    *)

PagingQueries == { <<>>, <<"p", "e", "n", "d">>, <<"X", ".">>, <<"z">> }

\* Page numbers from 0 to one past the last page a table can have.
PagingPages == 0..(MathCeilDiv(MaxInvoices, ITEMS_PER_PAGE) + 1)

\* Every customer present, or the customer of some invoices missing.
PagingCustomers == { CustomerPool, { c \in CustomerPool : c.id # 2 } }

InitPaging ==
    /\ customers \in PagingCustomers
    /\ invoices \in InvoiceTables(MaxInvoices)
    /\ revenue = {}
    /\ Idle

NextPaging ==
    \/ fetchLatestInvoices_call
    \/ \E query \in PagingQueries, currentPage \in PagingPages :
           fetchFilteredInvoices_call(query, currentPage)
    \/ \E query \in PagingQueries : fetchInvoicesPages_call(query)
    \/ Fulfil
    \/ Reject
    \/ Resume

SpecPaging == InitPaging /\ [][NextPaging]_vars

\* The joined invoice rows that match the query.
Matching(query) == { j \in Joined : fetchInvoicesPages_where(j, query) }

\* ceil(n / 6): the least k with 6 * k >= n.
CeilOverPageSize(n) == CHOOSE k \in 0..n : 6 * k >= n /\ \A m \in 0..n : 6 * m >= n => k <= m

\* C1: a fetchInvoicesPages(q) that did not fault returns ceil(n / 6) for the
\* n joined rows matching q, and at least 1: never 0, and 1 when n is 0.
C1_PageCountAtLeastOne ==
    Returned("fetchInvoicesPages") /\ ~Faulted =>
        LET n == Cardinality(Matching(args.query))
        IN  /\ result = (IF CeilOverPageSize(n) < 1 THEN 1 ELSE CeilOverPageSize(n))
            /\ result # 0

RECURSIVE Concat(_)
Concat(pages) == IF pages = <<>> THEN <<>> ELSE Head(pages) \o Concat(Tail(pages))

\* Every page 1..pageCount of the open session has been handed out.
SessionComplete == session.open /\ Len(session.pages) = session.pageCount

\* C2: with N the page count returned for q, the pages 1..N returned for q,
\* put end to end, hold every row matching q exactly once, in date-descending
\* order, also when matching invoices share a date.
C2_PagesHoldEachRowOnce ==
    SessionComplete =>
        LET all == Concat(session.pages)
        IN  /\ \A j \in Matching(session.query) :
                   Cardinality({ k \in 1..Len(all) : all[k].id = j.i.id }) = 1
            /\ Len(all) = Cardinality(Matching(session.query))
            /\ \A k \in 1..Len(all) : k < Len(all) => ~DateLess(all[k].date, all[k + 1].date)

\* The count fetchInvoicesPages(query) returns when its statement succeeds.
PageCountOf(query) ==
    fetchInvoicesPages(<< [state |-> "fulfilled",
                           rows |-> CHOOSE rows \in SelectInvoicesCount(query) : TRUE] >>).value

\* C10: fetchFilteredInvoices(q, page) asks for LIMIT 6 OFFSET (page - 1) * 6
\* whatever the page; it never ends in an error; it returns at most 6 rows,
\* and no row for a page outside 1..fetchInvoicesPages(q).
C10_OutOfRangePageIsEmpty ==
    /\ op = "fetchFilteredInvoices" /\ pc # "idle" =>
        /\ pc # "threw"
        /\ queries[1].stmt.limit = 6
        /\ queries[1].stmt.offset = (args.currentPage - 1) * 6
    /\ Returned("fetchFilteredInvoices") =>
        /\ Len(result) <= 6
        /\ args.currentPage \notin 1..PageCountOf(args.query) => result = <<>>

\* A page past the last one came back empty without a fault, two pages of
\* rows matching.
C10_Witness ==
    /\ Returned("fetchFilteredInvoices") /\ ~Faulted
    /\ PageCountOf(args.query) = 2
    /\ args.currentPage = 3
    /\ result = <<>>

DateOfInvoice(id) == (CHOOSE i \in invoices : i.id = id).date

\* C7: a fetchLatestInvoices that did not fault returns at most 5 rows, of
\* distinct joined invoices, none of them older than a joined invoice left
\* out, in date-descending order (equal dates may follow each other).
C7_LatestFive ==
    Returned("fetchLatestInvoices") /\ ~Faulted =>
        LET ids == { result[k].id : k \in 1..Len(result) }
        IN  /\ Len(result) <= 5
            /\ Len(result) = (IF Cardinality(Joined) < 5 THEN Cardinality(Joined) ELSE 5)
            /\ Cardinality(ids) = Len(result)
            /\ ids \subseteq { j.i.id : j \in Joined }
            /\ \A j \in Joined : j.i.id \notin ids =>
                   \A id \in ids : ~DateLess(DateOfInvoice(id), j.i.date)
            /\ \A k \in 1..Len(result) : k < Len(result) =>
                   ~DateLess(DateOfInvoice(result[k].id), DateOfInvoice(result[k + 1].id))

\* Five rows came back from more than five invoices, the last of them tied
\* on its date with an invoice left out.
C7_Witness ==
    /\ Returned("fetchLatestInvoices") /\ ~Faulted
    /\ Cardinality(Joined) > 5
    /\ Len(result) = 5
    /\ \E j \in Joined :
           /\ j.i.id \notin { result[k].id : k \in 1..5 }
           /\ j.i.date = DateOfInvoice(result[5].id)

---------------------------------------------------------------------------
(* SpecSearch: the search predicate, on one joined row and every query of   *)
(* up to MaxQueryLen characters.                                            *)

SearchAlphabet == { "a", "N", "5", "-", "_", "%", "\\" }

RECURSIVE Texts(_)
\* The texts of up to n characters of SearchAlphabet.
Texts(n) ==
    IF n = 0 THEN {<<>>}
    ELSE Texts(n - 1) \cup { t \o <<c>> : t \in { x \in Texts(n - 1) : Len(x) = n - 1 },
                                          c \in SearchAlphabet }

SearchQueries == Texts(MaxQueryLen)

SearchNames == { <<"A", "n", "a">>, <<"N", "_", "a">>, <<"5", "0", "%">> }

InitSearch ==
    /\ \E name \in SearchNames :
           customers = { [id |-> 1, name |-> name,
                          email |-> <<"n", "a", "@", "x", ".", "i", "o">>,
                          image_url |-> "/customers/na.png"] }
    /\ \E amount \in {500, 1250}, status \in {"paid", "pending"}, date \in {DatePool[1], DatePool[4]} :
           invoices = { [id |-> 1, customer_id |-> 1, amount |-> amount,
                         status |-> status, date |-> date] }
    /\ revenue = {}
    /\ Idle

NextSearch ==
    \/ \E query \in SearchQueries : fetchFilteredInvoices_call(query, 1)
    \/ \E query \in SearchQueries : fetchInvoicesPages_call(query)
    \/ Fulfil
    \/ Reject
    \/ Resume

SpecSearch == InitSearch /\ [][NextSearch]_vars

\* s occurs in t.
Contains(t, s) == \E k \in 0..(Len(t) - Len(s)) : SubSeq(t, k + 1, k + Len(s)) = s

\* The query, without regard to case, is a literal substring of one of the
\* five searched fields of the joined row.
LiteralMatch(j, query) ==
    \E field \in { j.c.name, j.c.email, IntToText(j.i.amount), DateToText(j.i.date),
                   StatusText(j.i.status) } :
        Contains(LowerText(field), LowerText(query))

\* C5: fetchFilteredInvoices and fetchInvoicesPages take a joined row as
\* matching exactly when the query, compared without regard to case, is a
\* literal substring of the customer's name or email or of the invoice's
\* amount, date or status as text; the empty query matches every row.
C5_LiteralSubstringMatch ==
    /\ Returned("fetchFilteredInvoices") /\ ~Faulted =>
           \A j \in Joined :
               (\E k \in 1..Len(result) : result[k].id = j.i.id) <=> LiteralMatch(j, args.query)
    /\ Returned("fetchInvoicesPages") /\ ~Faulted =>
           result = MathCeilDiv(Cardinality({ j \in Joined : LiteralMatch(j, args.query) }),
                                ITEMS_PER_PAGE)

Wildcards == { "_", "%", "\\" }

\* Beside C5: for a query without the pattern characters _ % \ the two
\* operations do match by literal substring, and the two WHERE clauses
\* agree on every query.
C5_HoldsWithoutWildcards ==
    op \in {"fetchFilteredInvoices", "fetchInvoicesPages"} =>
        /\ (\A k \in 1..Len(args.query) : args.query[k] \notin Wildcards) => C5_LiteralSubstringMatch
        /\ \A j \in Joined :
               fetchFilteredInvoices_where(j, args.query) <=> fetchInvoicesPages_where(j, args.query)

============================================================================
